---- MODULE Spec2Model ----
(***************************************************************************)
(* A model of scripts/render_invoice_images.py: one run of main() over a   *)
(* command line, a small file system and an external PDF rasterizer.       *)
(*                                                                         *)
(* Strings that name files are sequences of path components, so that       *)
(* "d/./out.png" is <<"d", ".", "out.png">> and "" is <<>>.  A pathlib     *)
(* Path is the normalised sequence (no "." components); Path(".") is <<>>. *)
(* The command line is one that argparse accepts: --input is present, no   *)
(* option is repeated and every --dpi value is the text of an integer.     *)
(***************************************************************************)
EXTENDS Integers, Sequences, FiniteSets, TLC

VARIABLES
    argv,         \* the command line: a sequence of [opt, val] tokens
    args,         \* the argparse Namespace (line 28)
    pc,           \* the position of main()
    pdf_path,     \* Path(args.input) (line 30)
    outputs,      \* the list of (Path, format) pairs (lines 34-38)
    images,       \* what convert_from_path returned (line 43)
    first_page,   \* images[0] (line 47)
    idx,          \* the position of the for loop in outputs (line 49)
    dirs,         \* file system: the directories that exist
    files,        \* file system: the regular files, path -> content
    fs0,          \* the file system as the run found it
    stdout,       \* the lines printed
    stderr,       \* the message of the SystemExit, if any
    exitCode,     \* the exit status of the process, -1 while it runs
    convertCalls, \* the calls made to the rasterizer: <<path string, dpi>>
    mkdirCalls,   \* the calls made to Path.mkdir: [path, ok]
    saveCalls     \* the calls made to Image.save: [path, fmt, page, ok]

vars == <<argv, args, pc, pdf_path, outputs, images, first_page, idx, dirs,
          files, fs0, stdout, stderr, exitCode, convertCalls, mkdirCalls,
          saveCalls>>

(***************************************************************************)
(* Bounds and program constants                                            *)
(***************************************************************************)
MaxPages == 2

DefaultDpi == 200

(***************************************************************************)
(* Strings, paths and the file system                                      *)
(***************************************************************************)
IsDot(c) == c = "."

NotDot(c) == ~IsDot(c)

\* pathlib.Path(s): "." components (and so the empty string) collapse
Path(s) == SelectSeq(s, NotDot)

\* str(p) of a Path: the normalised text, "." for the empty path
Str(p) == IF p = <<>> THEN <<".">> ELSE p

\* p.parent: the path without its last component; Path(".").parent is itself
Parent(p) == IF p = <<>> THEN <<>> ELSE SubSeq(p, 1, Len(p) - 1)

\* the path and all its ancestors up to the working directory
Prefixes(p) == {SubSeq(p, 1, k) : k \in 0..Len(p)}

\* p.exists(): something, a directory or a regular file, is at p
Exists(p) == p \in dirs \/ p \in DOMAIN files

TruthyIgnoresEmpty(v) == v.some

\* bool(s) of a str or None as Python's `if` takes it
Truthy(v) == v.some /\ v.val # <<>>

None == [some |-> FALSE, val |-> <<>>]

Some(s) == [some |-> TRUE, val |-> s]

\* int(s) as argparse applies it to the --dpi value
IntOf(s) ==
    CASE s = <<"72">> -> 72
      [] s = <<"300">> -> 300
      [] OTHER -> 0

\* the text of a confirmation line (line 52)
Line(fmt, p) == <<"Generated", fmt, "image at", Str(p)>>

PdfContent == [fmt |-> "PDF", page |-> 0]

(***************************************************************************)
(* The command lines and file systems a run may start from                 *)
(***************************************************************************)
InputVals == {<<"inv.pdf">>, <<".", "inv.pdf">>}

PngVals == {<<>>, <<"out.png">>, <<"d", ".", "e", "out.png">>,
            <<"inv.pdf", "out.png">>, <<".">>}

JpgVals == {<<>>, <<"out.jpg">>, <<"d", "out.jpg">>, <<"out.png">>}

DpiVals == {<<"72">>, <<"300">>}

Tokens ==
    [opt : {"--input"}, val : InputVals] \cup [opt : {"--png"}, val : PngVals]
    \cup [opt : {"--jpg"}, val : JpgVals] \cup [opt : {"--dpi"}, val : DpiVals]

Opts(s) == {s[i].opt : i \in 1..Len(s)}

CommandLines ==
    {s \in UNION {[1..n -> Tokens] : n \in 1..4} :
        /\ "--input" \in Opts(s)
        /\ Cardinality(Opts(s)) = Len(s)}

InitialDirs == {{<<>>}, {<<>>, <<"d">>}}

InitialFiles == {<<"inv.pdf">> :> PdfContent, <<"other.pdf">> :> PdfContent}

(***************************************************************************)
(* parse_args (lines 13-19)                                                *)
(***************************************************************************)
DefaultsWrongDpi == [input |-> None, png |-> None, jpg |-> None, dpi |-> 72]

\* the Namespace before any option is read: the declared defaults
Defaults == [input |-> None, png |-> None, jpg |-> None, dpi |-> DefaultDpi]

\* one option stored into the Namespace under its destination
Store(ns, tok) ==
    CASE tok.opt = "--input" -> [ns EXCEPT !.input = Some(tok.val)]
      [] tok.opt = "--png" -> [ns EXCEPT !.png = Some(tok.val)]
      [] tok.opt = "--jpg" -> [ns EXCEPT !.jpg = Some(tok.val)]
      [] tok.opt = "--dpi" -> [ns EXCEPT !.dpi = IntOf(tok.val)]

RECURSIVE ParseFrom(_, _)
ParseFrom(ns, s) ==
    IF s = <<>> THEN ns ELSE ParseFrom(Store(ns, Head(s)), Tail(s))

\* parser.parse_args(): the options are read left to right into the defaults
Namespace(s) == ParseFrom(Defaults, s)

(***************************************************************************)
(* main (lines 27-52)                                                      *)
(***************************************************************************)
OutputsInArgvOrder(a) ==
    LET pick(tok) == tok.opt \in {"--png", "--jpg"} /\ tok.val # <<>>
        one(tok) == [path |-> Path(tok.val),
                     fmt |-> IF tok.opt = "--png" THEN "PNG" ELSE "JPEG"]
        given == SelectSeq(argv, pick)
    IN  [i \in 1..Len(given) |-> one(given[i])]

\* lines 34-38: the output list, PNG first, then JPEG
Outputs(a) ==
    (IF Truthy(a.png) THEN <<[path |-> Path(a.png.val), fmt |-> "PNG"]>>
     ELSE <<>>)
    \o (IF Truthy(a.jpg) THEN <<[path |-> Path(a.jpg.val), fmt |-> "JPEG"]>>
        ELSE <<>>)

LastPage(imgs) == imgs[Len(imgs)]

\* line 47: images[0]
FirstPage(imgs) == imgs[1]

\* what the rasterizer returns for a PDF of n pages: its pages in order
Pages(n) == [i \in 1..n |-> i]

NoArgs == [input |-> None, png |-> None, jpg |-> None, dpi |-> 0]

Init ==
    /\ argv \in CommandLines
    /\ dirs \in InitialDirs
    /\ files \in InitialFiles
    /\ fs0 = [dirs |-> dirs, files |-> files]
    /\ args = NoArgs
    /\ pc = "parse_args"
    /\ pdf_path = <<>>
    /\ outputs = <<>>
    /\ images = <<>>
    /\ first_page = 0
    /\ idx = 0
    /\ stdout = <<>>
    /\ stderr = <<>>
    /\ exitCode = -1
    /\ convertCalls = <<>>
    /\ mkdirCalls = <<>>
    /\ saveCalls = <<>>

\* the process ends: SystemExit(msg) and an uncaught exception exit with 1
Exit(state, code, msg) ==
    /\ pc' = state
    /\ exitCode' = code
    /\ stderr' = msg

Goto(state) ==
    /\ pc' = state
    /\ UNCHANGED <<exitCode, stderr>>

\* line 28
ParseArgs ==
    /\ pc = "parse_args"
    /\ args' = Namespace(argv)
    /\ Goto("check_input")
    /\ UNCHANGED <<argv, pdf_path, outputs, images, first_page, idx, dirs, files,
                   fs0, stdout, convertCalls, mkdirCalls, saveCalls>>

CheckInputNoAbort ==
    /\ pc = "check_input"
    /\ pdf_path' = Path(args.input.val)
    /\ Goto("build_outputs")
    /\ UNCHANGED <<argv, args, outputs, images, first_page, idx, dirs, files,
                   fs0, stdout, convertCalls, mkdirCalls, saveCalls>>

\* lines 30-32
CheckInput ==
    /\ pc = "check_input"
    /\ pdf_path' = Path(args.input.val)
    /\ IF ~Exists(pdf_path')
       THEN Exit("abort_not_found", 1, <<"PDF not found: ", Str(pdf_path')>>)
       ELSE Goto("build_outputs")
    /\ UNCHANGED <<argv, args, outputs, images, first_page, idx, dirs, files,
                   fs0, stdout, convertCalls, mkdirCalls, saveCalls>>

\* lines 34-38
BuildOutputs ==
    /\ pc = "build_outputs"
    /\ outputs' = Outputs(args)
    /\ Goto("check_outputs")
    /\ UNCHANGED <<argv, args, pdf_path, images, first_page, idx, dirs, files,
                   fs0, stdout, convertCalls, mkdirCalls, saveCalls>>

CheckOutputsNoAbort ==
    /\ pc = "check_outputs"
    /\ Goto("convert")
    /\ UNCHANGED <<argv, args, pdf_path, outputs, images, first_page, idx, dirs,
                   files, fs0, stdout, convertCalls, mkdirCalls, saveCalls>>

\* lines 40-41
CheckOutputs ==
    /\ pc = "check_outputs"
    /\ IF outputs = <<>>
       THEN Exit("abort_no_output", 1,
                 <<"Specify at least --png or --jpg output path.">>)
       ELSE Goto("convert")
    /\ UNCHANGED <<argv, args, pdf_path, outputs, images, first_page, idx, dirs,
                   files, fs0, stdout, convertCalls, mkdirCalls, saveCalls>>

\* line 43: the rasterizer is called once; it returns the pages of the PDF,
\* possibly none, or raises, and what it raises leaves main() uncaught
Convert ==
    /\ pc = "convert"
    /\ convertCalls' = Append(convertCalls, <<Str(pdf_path), args.dpi>>)
    /\ \/ \E n \in 0..MaxPages :
             /\ images' = Pages(n)
             /\ Goto("check_images")
       \/ /\ images' = images
          /\ Exit("error", 1, <<"convert_from_path raised">>)
    /\ UNCHANGED <<argv, args, pdf_path, outputs, first_page, idx, dirs, files,
                   fs0, stdout, mkdirCalls, saveCalls>>

CheckImagesNoAbort ==
    /\ pc = "check_images"
    /\ IF images = <<>>
       THEN /\ Exit("error", 1, <<"IndexError">>)
            /\ UNCHANGED <<first_page, idx>>
       ELSE /\ first_page' = FirstPage(images)
            /\ idx' = 1
            /\ Goto("loop")
    /\ UNCHANGED <<argv, args, pdf_path, outputs, images, dirs, files, fs0,
                   stdout, convertCalls, mkdirCalls, saveCalls>>

\* lines 44-47
CheckImages ==
    /\ pc = "check_images"
    /\ IF images = <<>>
       THEN /\ Exit("abort_no_pages", 1, <<"No pages rendered from PDF.">>)
            /\ UNCHANGED <<first_page, idx>>
       ELSE /\ first_page' = FirstPage(images)
            /\ idx' = 1
            /\ Goto("loop")
    /\ UNCHANGED <<argv, args, pdf_path, outputs, images, dirs, files, fs0,
                   stdout, convertCalls, mkdirCalls, saveCalls>>

\* line 49: the next output of the list, or the end of main()
LoopHead ==
    /\ pc = "loop"
    /\ IF idx > Len(outputs)
       THEN Exit("done", 0, <<>>)
       ELSE Goto("ensure_parent")
    /\ UNCHANGED <<argv, args, pdf_path, outputs, images, first_page, idx, dirs,
                   files, fs0, stdout, convertCalls, mkdirCalls, saveCalls>>

\* Path.mkdir(parents=True, exist_ok=True) can make p and its missing
\* ancestors when none of them is a regular file
CanMkdir(p) == Prefixes(p) \cap DOMAIN files = {}

EnsureParentNoMkdir ==
    /\ pc = "ensure_parent"
    /\ Goto("save")
    /\ UNCHANGED <<argv, args, pdf_path, outputs, images, first_page, idx, dirs,
                   files, fs0, stdout, convertCalls, mkdirCalls, saveCalls>>

\* lines 22-24 and 50: bool(path) and bool(path.parent) are True of every
\* Path, so mkdir is called exactly when nothing exists at the parent.  A
\* failing mkdir may have made some of the ancestors before it raised.
EnsureParent ==
    /\ pc = "ensure_parent"
    /\ LET parent == Parent(outputs[idx].path) IN
       IF ~Exists(parent)
       THEN \/ /\ CanMkdir(parent)
               /\ dirs' = dirs \cup Prefixes(parent)
               /\ mkdirCalls' = Append(mkdirCalls, [path |-> parent, ok |-> TRUE])
               /\ Goto("save")
            \/ \E k \in 0..(Len(parent) - 1) :
                  /\ CanMkdir(SubSeq(parent, 1, k))
                  /\ dirs' = dirs \cup Prefixes(SubSeq(parent, 1, k))
                  /\ mkdirCalls' = Append(mkdirCalls, [path |-> parent, ok |-> FALSE])
                  /\ Exit("error", 1, <<"mkdir raised">>)
       ELSE /\ UNCHANGED <<dirs, mkdirCalls>>
            /\ Goto("save")
    /\ UNCHANGED <<argv, args, pdf_path, outputs, images, first_page, idx,
                   files, fs0, stdout, convertCalls, saveCalls>>

\* the file a path string names: the operating system drops "." components
Loc(str) == Path(str)

\* a file can be written where its directory exists and no directory is
CanWrite(loc) == loc \notin dirs /\ Parent(loc) \in dirs

SaveCall(ok) ==
    [path |-> Str(outputs[idx].path), fmt |-> outputs[idx].fmt,
     page |-> first_page, ok |-> ok]

SaveSwallowsError ==
    /\ pc = "save"
    /\ LET name == Str(outputs[idx].path) IN
       \/ /\ CanWrite(Loc(name))
          /\ files' = (Loc(name) :> [fmt |-> outputs[idx].fmt, page |-> first_page])
                        @@ files
          /\ saveCalls' = Append(saveCalls, SaveCall(TRUE))
          /\ Goto("print")
          /\ idx' = idx
       \/ /\ files' = files
          /\ saveCalls' = Append(saveCalls, SaveCall(FALSE))
          /\ Goto("print")
          /\ idx' = idx
    /\ UNCHANGED <<argv, args, pdf_path, outputs, images, first_page, dirs,
                   fs0, stdout, convertCalls, mkdirCalls>>

SaveContinuesAfterError ==
    /\ pc = "save"
    /\ LET name == Str(outputs[idx].path) IN
       \/ /\ CanWrite(Loc(name))
          /\ files' = (Loc(name) :> [fmt |-> outputs[idx].fmt, page |-> first_page])
                        @@ files
          /\ saveCalls' = Append(saveCalls, SaveCall(TRUE))
          /\ Goto("print")
          /\ idx' = idx
       \/ /\ files' = files
          /\ saveCalls' = Append(saveCalls, SaveCall(FALSE))
          /\ Goto("loop")
          /\ idx' = idx + 1
    /\ UNCHANGED <<argv, args, pdf_path, outputs, images, first_page, dirs,
                   fs0, stdout, convertCalls, mkdirCalls>>

\* line 51: the first page is saved under str(output_path) in the format of
\* the request; the save writes the whole file or raises, and what it raises
\* leaves main() uncaught
Save ==
    /\ pc = "save"
    /\ LET name == Str(outputs[idx].path) IN
       \/ /\ CanWrite(Loc(name))
          /\ files' = (Loc(name) :> [fmt |-> outputs[idx].fmt, page |-> first_page])
                        @@ files
          /\ saveCalls' = Append(saveCalls, SaveCall(TRUE))
          /\ Goto("print")
       \/ /\ files' = files
          /\ saveCalls' = Append(saveCalls, SaveCall(FALSE))
          /\ Exit("error", 1, <<"save raised">>)
    /\ UNCHANGED <<argv, args, pdf_path, outputs, images, first_page, idx, dirs,
                   fs0, stdout, convertCalls, mkdirCalls>>

\* line 52, and the loop moves to the next output
PrintLine ==
    /\ pc = "print"
    /\ stdout' = Append(stdout, Line(outputs[idx].fmt, outputs[idx].path))
    /\ idx' = idx + 1
    /\ Goto("loop")
    /\ UNCHANGED <<argv, args, pdf_path, outputs, images, first_page, dirs,
                   files, fs0, convertCalls, mkdirCalls, saveCalls>>

Next ==
    \/ ParseArgs
    \/ CheckInput
    \/ BuildOutputs
    \/ CheckOutputs
    \/ Convert
    \/ CheckImages
    \/ LoopHead
    \/ EnsureParent
    \/ Save
    \/ PrintLine

Spec == Init /\ [][Next]_vars

\* the interpreter runs main() to its end: a step that can be taken is taken
FairSpec == Spec /\ WF_vars(Next)

Terminal == {"abort_not_found", "abort_no_output", "abort_no_pages", "error", "done"}

(***************************************************************************)
(* What a run was asked for, read off the command line and the file system *)
(* it started from                                                         *)
(***************************************************************************)
Given(o) == o \in Opts(argv)

ValueOf(o) == argv[CHOOSE i \in 1..Len(argv) : argv[i].opt = o].val

\* the option is there with a non-empty value
Supplied(o) == Given(o) /\ ValueOf(o) # <<>>

Position(o) == CHOOSE i \in 1..Len(argv) : argv[i].opt = o

InputPath == SelectSeq(ValueOf("--input"), NotDot)

InputExists == InputPath \in fs0.dirs \/ InputPath \in DOMAIN fs0.files

RequestedDpi == IF Given("--dpi") THEN IntOf(ValueOf("--dpi")) ELSE 200

PngPath == SelectSeq(ValueOf("--png"), NotDot)

JpgPath == SelectSeq(ValueOf("--jpg"), NotDot)

\* the run has changed nothing outside itself
NoEffects ==
    /\ convertCalls = <<>>
    /\ mkdirCalls = <<>>
    /\ saveCalls = <<>>
    /\ dirs = fs0.dirs
    /\ files = fs0.files
    /\ stdout = <<>>

\* the process runs on until it ends, and ends with an exit status
Progress ==
    /\ pc \notin Terminal => exitCode = -1 /\ ENABLED Next
    /\ pc \in Terminal => exitCode # -1

\* C1: with a missing --input path, whatever the other options, the run
\* goes from parsing straight to the 'PDF not found' abort with exit
\* status 1: the rasterizer is never called, no directory is made, no file
\* is written and nothing is printed.
C1_MissingInputAborts ==
    ~InputExists =>
        /\ pc \in {"parse_args", "check_input", "abort_not_found"}
        /\ Progress
        /\ pc = "abort_not_found" =>
              exitCode = 1 /\ stderr = <<"PDF not found: ", Str(InputPath)>>
        /\ NoEffects

C1_Witness ==
    /\ pc = "abort_not_found"
    /\ Supplied("--png") /\ Supplied("--jpg") /\ Given("--dpi")

\* C2: with an existing input and neither --png nor --jpg on the command
\* line, the run goes to the 'no output specified' abort with exit status
\* 1 and never calls the rasterizer, makes a directory, writes a file or
\* prints a line.
C2_NoOutputAborts ==
    (InputExists /\ ~Given("--png") /\ ~Given("--jpg")) =>
        /\ pc \in {"parse_args", "check_input", "build_outputs",
                    "check_outputs", "abort_no_output"}
        /\ Progress
        /\ pc = "abort_no_output" =>
              /\ exitCode = 1
              /\ stderr = <<"Specify at least --png or --jpg output path.">>
        /\ NoEffects

C2_Witness ==
    /\ pc = "abort_no_output"
    /\ ~Given("--png") /\ ~Given("--jpg")

\* the rasterizer has returned, and returned no page
ReturnedEmpty == pc = "check_images" /\ images = <<>>

NothingWritten ==
    /\ mkdirCalls = <<>>
    /\ saveCalls = <<>>
    /\ dirs = fs0.dirs
    /\ files = fs0.files
    /\ stdout = <<>>

\* C3: once both validations have passed and the rasterizer has returned an
\* empty sequence, the next step of the run is the 'no pages rendered'
\* abort with exit status 1, and at that point no directory has been made,
\* no file written and no line printed.
C3_NoPagesAborts ==
    /\ [](ReturnedEmpty =>
            InputExists /\ outputs # <<>> /\ ENABLED Next /\ NothingWritten)
    /\ [][ReturnedEmpty =>
            /\ pc' = "abort_no_pages"
            /\ exitCode' = 1
            /\ stderr' = <<"No pages rendered from PDF.">>
            /\ NothingWritten']_vars
    /\ [](pc = "abort_no_pages" => NothingWritten /\ ~ENABLED Next)

C3_Witness ==
    /\ pc = "abort_no_pages"
    /\ Len(convertCalls) = 1
    /\ Len(outputs) = 2

\* the text the run prints for a file of format fmt written under name
Confirmation(fmt, name) == <<"Generated", fmt, "image at", name>>

AllOk(calls) == \A i \in 1..Len(calls) : calls[i].ok

PngCall == [path |-> Str(PngPath), fmt |-> "PNG", page |-> 1, ok |-> TRUE]

JpgCall == [path |-> Str(JpgPath), fmt |-> "JPEG", page |-> 1, ok |-> TRUE]

\* C4: with both --png and --jpg supplied, in either order on the command
\* line, a run that gets at least one page and meets no failing mkdir or
\* save ends in done with both files on disk, and the PNG file is written
\* and confirmed before the JPEG file is written and confirmed.
C4_PngBeforeJpg ==
    (Supplied("--png") /\ Supplied("--jpg")) =>
        /\ (pc \in Terminal /\ images # <<>> /\ AllOk(mkdirCalls) /\ AllOk(saveCalls)) =>
              /\ pc = "done" /\ exitCode = 0
              /\ saveCalls = <<PngCall, JpgCall>>
              /\ stdout = <<Confirmation("PNG", Str(PngPath)),
                            Confirmation("JPEG", Str(JpgPath))>>
              /\ {PngPath, JpgPath} \subseteq DOMAIN files
              /\ files[JpgPath].fmt = "JPEG"
              /\ PngPath # JpgPath => files[PngPath].fmt = "PNG"
        /\ \A i \in 1..Len(saveCalls) :
              saveCalls[i].fmt = "JPEG" =>
                  /\ i = 2
                  /\ saveCalls[1] = PngCall
                  /\ Len(stdout) >= 1
                  /\ stdout[1] = Confirmation("PNG", Str(PngPath))
        /\ \A i \in 1..Len(stdout) :
              stdout[i][2] = "JPEG" => i = 2 /\ stdout[1][2] = "PNG"

C4_Witness ==
    /\ pc = "done"
    /\ Supplied("--png") /\ Supplied("--jpg")
    /\ Position("--jpg") < Position("--png")
    /\ Len(stdout) = 2

\* the files the run itself has written
WrittenFiles == {p \in DOMAIN files : files[p].fmt \in {"PNG", "JPEG"}}

\* C5: whatever the number of pages the rasterizer returned and whichever
\* outputs were asked for, every save is of the first page of the result
\* (index 0) and every file written holds it; no later page is ever saved.
C5_OnlyFirstPage ==
    /\ pc \in {"loop", "ensure_parent", "save", "print", "done"} =>
          images # <<>> /\ first_page = images[1]
    /\ \A i \in 1..Len(saveCalls) :
          /\ saveCalls[i].page = images[1]
          /\ \A k \in 2..Len(images) : saveCalls[i].page # images[k]
    /\ \A p \in WrittenFiles :
          /\ files[p].page = images[1]
          /\ \A k \in 2..Len(images) : files[p].page # images[k]

C5_Witness ==
    /\ pc = "done"
    /\ Len(images) >= 2
    /\ Cardinality(WrittenFiles) = 2

\* the output the loop is at
Current == outputs[idx].path

\* C6: a save is attempted only when the parent of its path exists, the
\* parent and all its missing ancestors having been made just before when
\* nothing was there; a file is only ever written into a directory that
\* exists; and for an output whose parent already exists no directory is
\* made.
C6_ParentBeforeSave ==
    /\ [](pc = "save" => Exists(Parent(Current)))
    /\ [](\A p \in WrittenFiles : Parent(p) \in dirs)
    /\ [][(pc = "ensure_parent" /\ ~Exists(Parent(Current)) /\ pc' = "save") =>
            /\ Prefixes(Parent(Current)) \subseteq dirs'
            /\ dirs' = dirs \cup Prefixes(Parent(Current))
            /\ files' = files]_vars
    /\ [][(pc = "ensure_parent" /\ Exists(Parent(Current))) =>
            dirs' = dirs /\ mkdirCalls' = mkdirCalls /\ pc' = "save"]_vars
    /\ [][pc # "ensure_parent" => dirs' = dirs /\ mkdirCalls' = mkdirCalls]_vars
    /\ [][files' # files => pc = "save" /\ Parent(Current) \in dirs]_vars

C6_Witness ==
    /\ pc = "done"
    /\ <<"d">> \notin fs0.dirs
    /\ {<<"d">>, <<"d", "e">>} \subseteq dirs
    /\ <<"d", "e", "out.png">> \in WrittenFiles

OkCall(c) == c.ok

\* the lines owed for the files written so far, in the order of writing
Owed ==
    LET done == SelectSeq(saveCalls, OkCall)
    IN  [i \in 1..Len(done) |-> Confirmation(done[i].fmt, done[i].path)]

\* C7: the lines printed are always a prefix of the lines owed for the
\* files already written, so a line is printed only after its own save has
\* succeeded; at done the two are equal; and the i-th line is 'Generated
\* <FORMAT> image at <path>' with the format and path of the i-th request.
C7_OneLinePerFile ==
    /\ Len(stdout) <= Len(Owed)
    /\ \A i \in 1..Len(stdout) :
          /\ stdout[i] = Owed[i]
          /\ stdout[i] = <<"Generated", outputs[i].fmt, "image at",
                           Str(outputs[i].path)>>
          /\ outputs[i].fmt \in {"PNG", "JPEG"}
    /\ pc = "done" => stdout = Owed /\ Len(stdout) = Len(outputs)
    /\ Len(Owed) <= Len(stdout) + 1
    /\ Len(Owed) = Len(stdout) + 1 => pc = "print"

C7_Witness ==
    /\ pc = "done"
    /\ Len(stdout) = 2
    /\ stdout[2] = <<"Generated", "JPEG", "image at", <<"d", "out.jpg">>>>

Aborts == {"abort_not_found", "abort_no_output", "abort_no_pages"}

\* the i-th save is the one save of the i-th request
SaveOf(i) ==
    /\ saveCalls[i].path = Str(outputs[i].path)
    /\ saveCalls[i].fmt = outputs[i].fmt

\* the i-th request was written and confirmed, and its file is on disk
Settled(i) ==
    /\ saveCalls[i].ok
    /\ Path(saveCalls[i].path) \in WrittenFiles
    /\ Len(stdout) >= i
    /\ stdout[i] = Confirmation(outputs[i].fmt, Str(outputs[i].path))

\* the directories the requests up to the i-th may have caused to be made
MayExist(i) ==
    fs0.dirs \cup UNION {Prefixes(Parent(outputs[j].path)) : j \in 1..i}

\* C8: the three validation aborts happen with no file written.  Inside the
\* loop a failing mkdir or save ends the run at once with exit status 1:
\* each request is saved at most once, in order; the requests before the
\* failing one stay written and confirmed; and for the requests after it
\* no directory is made, no file written and no line printed.  A run that
\* has ended takes no further step.
C8_FailFastNoRollback ==
    /\ pc \in Aborts => exitCode = 1 /\ saveCalls = <<>> /\ files = fs0.files
    /\ pc \in Terminal => ~ENABLED Next
    /\ Len(saveCalls) <= Len(outputs)
    /\ \A i \in 1..Len(saveCalls) : SaveOf(i)
    /\ \A i \in 1..Len(saveCalls) : ~saveCalls[i].ok =>
          /\ i = Len(saveCalls)
          /\ i = idx
          /\ pc = "error" /\ exitCode = 1
    /\ \A i \in 1..Len(mkdirCalls) : ~mkdirCalls[i].ok =>
          /\ i = Len(mkdirCalls)
          /\ mkdirCalls[i].path = Parent(outputs[idx].path)
          /\ Len(saveCalls) = idx - 1
          /\ pc = "error" /\ exitCode = 1
    /\ (pc = "error" /\ idx >= 1) =>
          /\ \A i \in 1..(idx - 1) : Settled(i)
          /\ Len(stdout) = idx - 1
          /\ Len(saveCalls) <= idx
          /\ Len(mkdirCalls) <= idx
          /\ dirs \subseteq MayExist(idx)
          /\ \A p \in WrittenFiles :
                \E i \in 1..(idx - 1) : p = outputs[i].path
          /\ ~AllOk(mkdirCalls) \/ ~AllOk(saveCalls)

C8_Witness ==
    /\ pc = "error"
    /\ Len(outputs) = 2
    /\ idx = 1
    /\ Len(saveCalls) = 1 /\ ~saveCalls[1].ok
    /\ fs0.dirs = {<<>>}
    /\ outputs[2].path = <<"d", "out.jpg">>

OkSaves(fmt) == {i \in 1..Len(saveCalls) : saveCalls[i].ok /\ saveCalls[i].fmt = fmt}

\* C9: every run ends, in one of the three aborts, in the propagated-error
\* state or in done; the rasterizer is called at most once, with the input
\* path and the DPI of the command line, 200 when --dpi is absent; and at
\* most two files are written, at most one PNG and at most one JPEG.
C9_TerminatesBounded ==
    /\ <>[](pc \in Terminal /\ exitCode \in {0, 1})
    /\ [](/\ Len(convertCalls) <= 1
          /\ \A i \in 1..Len(convertCalls) :
                convertCalls[i] = <<Str(InputPath), RequestedDpi>>
          /\ Cardinality(OkSaves("PNG")) <= 1
          /\ Cardinality(OkSaves("JPEG")) <= 1
          /\ Cardinality(OkSaves("PNG") \cup OkSaves("JPEG")) = Len(Owed)
          /\ Cardinality(WrittenFiles) <= 2)

C9_Witness ==
    /\ pc = "done"
    /\ ~Given("--dpi")
    /\ convertCalls = << <<<<"inv.pdf">>, 200>> >>
    /\ Cardinality(WrittenFiles) = 2

\* the requests of the command line that carry a non-empty path
SuppliedOutputs ==
    (IF Supplied("--png") THEN {[path |-> PngPath, fmt |-> "PNG"]} ELSE {})
    \cup (IF Supplied("--jpg") THEN {[path |-> JpgPath, fmt |-> "JPEG"]} ELSE {})

\* the requests the run has written and confirmed
WrittenOutputs ==
    {[path |-> Path(Owed[i][4]), fmt |-> Owed[i][2]] : i \in 1..Len(stdout)}

EmptyValued(tok) == tok.opt \in {"--png", "--jpg"} /\ tok.val = <<>>

NotEmptyValued(tok) == ~EmptyValued(tok)

\* the command line with the empty-valued output options taken away
WithoutEmpty == SelectSeq(argv, NotEmptyValued)

OnlyEmptyOutputs == SuppliedOutputs = {} /\ (Given("--png") \/ Given("--jpg"))

AfterBuild ==
    pc \notin {"parse_args", "check_input", "build_outputs", "abort_not_found"}

\* C10 as stated: the outputs written by a run that has ended are exactly
\* the non-empty output paths supplied, whatever way the run ended.
C10_WrittenAlwaysExactlySupplied ==
    pc \in Terminal => WrittenOutputs = SuppliedOutputs

\* C10, amended: an output option with an empty value counts as absent.
\* With an existing input, a run whose output options are all empty goes to
\* the 'no output specified' abort without calling the rasterizer; the
\* output list is the one the command line without its empty options
\* gives; the outputs written are always among the non-empty paths
\* supplied and are exactly those when the run ends in done; and whenever
\* the rasterizer is called at least one output path is present.
C10_EmptyIsAbsent ==
    /\ (InputExists /\ OnlyEmptyOutputs) =>
          /\ pc \in {"parse_args", "check_input", "build_outputs",
                      "check_outputs", "abort_no_output"}
          /\ Progress
          /\ NoEffects
    /\ AfterBuild =>
          /\ outputs = Outputs(Namespace(WithoutEmpty))
          /\ {outputs[i] : i \in 1..Len(outputs)} = SuppliedOutputs
    /\ WrittenOutputs \subseteq SuppliedOutputs
    /\ pc = "done" => WrittenOutputs = SuppliedOutputs
    /\ convertCalls # <<>> => SuppliedOutputs # {} /\ outputs # <<>>

C10_Witness ==
    /\ pc = "done"
    /\ Given("--png") /\ ValueOf("--png") = <<>>
    /\ Supplied("--jpg")
    /\ WrittenFiles = {JpgPath}
    /\ Len(stdout) = 1

====
